---- MODULE Spec2Model ----
(***************************************************************************)
(* Model of src/bindgen/cdecl.rs: the translation of a Rust type (or       *)
(* function signature) into a C / C++ / C# declaration.                    *)
(*                                                                         *)
(* A Type is a record tagged by k; an Option<T> is a sequence of length    *)
(* zero (None) or one (Some).  The output sink is the sequence of the      *)
(* strings handed to it, one element per write call; Text glues them.      *)
(***************************************************************************)
EXTENDS Integers, Sequences, FiniteSets, TLC

VARIABLES pc, call, cdecl, out

vars == <<pc, call, cdecl, out>>

(***************************************************************************)
(* bindgen::ir::Type and bindgen::ir::Function (the input IR)              *)
(***************************************************************************)
Primitive(p) == [k |-> "Primitive", name |-> p]
Path(n, g, c) == [k |-> "Path", name |-> n, generics |-> g, ctype |-> c]
ConstPtr(t) == [k |-> "ConstPtr", t |-> t]
Ptr(t) == [k |-> "Ptr", t |-> t]
Ref(t) == [k |-> "Ref", t |-> t]
MutRef(t) == [k |-> "MutRef", t |-> t]
Array(t, len) == [k |-> "Array", t |-> t, len |-> len]
FuncPtr(ret, args) == [k |-> "FuncPtr", ret |-> ret, args |-> args]
Function(n, args, ret) == [name |-> n, args |-> args, ret |-> ret]

None == <<>>
Some(x) == <<x>>

Language == {"C", "Cxx", "CS"}

(***************************************************************************)
(* Collaborators of cdecl.rs that live outside it                          *)
(***************************************************************************)
\* PrimitiveType::to_repr(lang): the dialect's spelling of a primitive.
to_repr(p, lang) ==
    CASE p = "u8" -> IF lang = "CS" THEN "byte" ELSE "uint8_t"
      [] OTHER -> p

\* GenericPath::export_name()
export_name(t) == t.name

\* GenericPath::generics()
generics(t) == t.generics

\* GenericPath::ctype()
ctype(t) == t.ctype

(***************************************************************************)
(* enum CDeclarator                                                        *)
(***************************************************************************)
CPtr(is_const) == [d |-> "Ptr", is_const |-> is_const]
CRef == [d |-> "Ref"]
CArray(len) == [d |-> "Array", len |-> len]
CFunc(args, layout_vertical) ==
    [d |-> "Func", args |-> args, layout_vertical |-> layout_vertical]

\* is_ptr without its Ptr arm.
is_ptr_without_ptr(x) == x.d \in {"Ref", "Func"}

is_ptr(x) == x.d \in {"Ptr", "Ref", "Func"}

(***************************************************************************)
(* struct CDecl.  panicked is not a field of the struct: it records that   *)
(* an assert! of build_type failed, and the fields hold what they held at  *)
(* the point of the panic.                                                 *)
(***************************************************************************)
new ==
    [type_qualifers |-> "", type_name |-> "", type_generic_args |-> <<>>,
     declarators |-> <<>>, type_ctype |-> None, panicked |-> FALSE]

Panic(self) == [self EXCEPT !.panicked = TRUE]

AnyPanicked(args) == \E i \in 1..Len(args) : args[i][2].panicked

RECURSIVE build_type(_, _, _, _)
RECURSIVE from_type(_, _)

build_path(self, t, is_const) ==
    IF is_const /\ self.type_qualifers # "" THEN Panic(self)
    ELSE LET s1 == IF is_const THEN [self EXCEPT !.type_qualifers = "const"] ELSE self
         IN  IF s1.type_name # "" THEN Panic(s1)
             ELSE LET s2 == [s1 EXCEPT !.type_name = export_name(t)]
                  IN  IF s2.type_generic_args # <<>> THEN Panic(s2)
                      ELSE [s2 EXCEPT !.type_generic_args = generics(t),
                                      !.type_ctype = ctype(t)]

\* build_type's Primitive arm without its assertions.
build_primitive_unchecked(self, t, is_const, lang) ==
    [self EXCEPT !.type_qualifers = IF is_const THEN "const" ELSE @,
                 !.type_name = to_repr(t.name, lang)]

build_primitive(self, t, is_const, lang) ==
    IF is_const /\ self.type_qualifers # "" THEN Panic(self)
    ELSE LET s1 == IF is_const THEN [self EXCEPT !.type_qualifers = "const"] ELSE self
         IN  IF s1.type_name # "" THEN Panic(s1)
             ELSE [s1 EXCEPT !.type_name = to_repr(t.name, lang)]

\* A push at the front of the declarators.
push_front(self, x) == [self EXCEPT !.declarators = <<x>> \o @]

push(self, x) == [self EXCEPT !.declarators = Append(@, x)]

build_type(self, t, is_const, lang) ==
    CASE t.k = "Path" -> build_path(self, t, is_const)
      [] t.k = "Primitive" -> build_primitive(self, t, is_const, lang)
      [] t.k = "ConstPtr" -> build_type(push(self, CPtr(is_const)), t.t, TRUE, lang)
      [] t.k = "Ptr" -> build_type(push(self, CPtr(is_const)), t.t, FALSE, lang)
      [] t.k = "Ref" -> build_type(push(self, CRef), t.t, TRUE, lang)
      [] t.k = "MutRef" -> build_type(push(self, CRef), t.t, FALSE, lang)
      [] t.k = "Array" -> build_type(push(self, CArray(t.len)), t.t, is_const, lang)
      [] t.k = "FuncPtr" ->
            LET args == [i \in 1..Len(t.args) |->
                            <<t.args[i][1], from_type(t.args[i][2], lang)>>]
            IN  IF AnyPanicked(args) THEN Panic(self)
                ELSE build_type(push(push(self, CPtr(FALSE)),
                                     CFunc(args, FALSE)),
                                t.ret, FALSE, lang)

from_type(t, lang) == build_type(new, t, FALSE, lang)

build_func(self, f, layout_vertical, lang) ==
    LET args == [i \in 1..Len(f.args) |->
                    <<Some(f.args[i][1]), from_type(f.args[i][2], lang)>>]
    IN  IF AnyPanicked(args) THEN Panic(self)
        ELSE build_type(push(self, CFunc(args, layout_vertical)), f.ret, FALSE, lang)

from_func(f, layout_vertical, lang) == build_func(new, f, layout_vertical, lang)

(***************************************************************************)
(* SourceWriter (bindgen::writer), as far as cdecl.rs drives it.  The sink *)
(* starts at column 0 with no indentation pushed.                          *)
(***************************************************************************)
RECURSIVE Spaces(_)
Spaces(n) == IF n = 0 THEN "" ELSE " " \o Spaces(n - 1)

\* line_length_for_align(): the length of the line being written.
RECURSIVE line_length_for_align(_)
line_length_for_align(o) ==
    IF o = <<>> \/ o[Len(o)] = "\n" THEN 0
    ELSE Len(o[Len(o)]) + line_length_for_align(SubSeq(o, 1, Len(o) - 1))

\* new_line() under push_set_spaces(align): the line break, and the
\* indentation that the next write puts in front of its text.
new_line(o, align) == o \o <<"\n", Spaces(align)>>

RECURSIVE Text(_)
Text(o) == IF o = <<>> THEN "" ELSE o[1] \o Text(Tail(o))

(***************************************************************************)
(* CDecl::write                                                            *)
(***************************************************************************)
RECURSIVE write(_, _, _, _, _)
RECURSIVE write_type(_, _, _)

\* write_horizontal_source_list(items, ListType::Join(", ")): each generic
\* argument is a Type and is written by write_type.
RECURSIVE write_horizontal_source_list(_, _, _, _)
write_horizontal_source_list(o, items, i, lang) ==
    IF i > Len(items) THEN o
    ELSE LET o1 == write_type(o, items[i], lang)
             o2 == IF i # Len(items) THEN Append(o1, ", ") ELSE o1
         IN  write_horizontal_source_list(o2, items, i + 1, lang)

\* cs_array_sz without the test that the array is the only declarator.
cs_array_sz_any_length(self, lang) ==
    IF lang = "CS" /\ Len(self.declarators) >= 1
    THEN IF self.declarators[1].d = "Array" THEN Some(self.declarators[1].len)
         ELSE None
    ELSE None

\* The size of the single array declarator that C# marshals by attribute.
cs_array_sz(self, lang) ==
    IF lang = "CS" /\ Len(self.declarators) = 1
    THEN IF self.declarators[1].d = "Array" THEN Some(self.declarators[1].len)
         ELSE None
    ELSE None

\* The type-specifier, type-qualifier and generic arguments, up to the space
\* that separates them from the declarators.
write_specifier(self, o, ident, lang) ==
    LET sz == cs_array_sz(self, lang)
        o1 == IF sz # None
              THEN Append(o, "[MarshalAs(UnmanagedType.ByValArray, SizeConst="
                             \o sz[1] \o ")] readonly ")
              ELSE o
        o2 == IF self.type_qualifers # ""
              THEN Append(o1, self.type_qualifers \o " ") ELSE o1
        o3 == IF self.type_ctype # None
              THEN Append(o2, self.type_ctype[1] \o " ") ELSE o2
        o4 == IF sz # None THEN Append(o3, self.type_name \o "[]")
              ELSE Append(o3, self.type_name)
        o5 == IF self.type_generic_args # <<>>
              THEN Append(write_horizontal_source_list(
                              Append(o4, "<"), self.type_generic_args, 1, lang), ">")
              ELSE o4
    IN  IF ident # None THEN Append(o5, " ") ELSE o5

\* One turn of the loop over iter_rev: declarator i, peeking declarator i-1.
left_of(ds, i) ==
    LET next_is_pointer == IF i > 1 THEN is_ptr(ds[i - 1]) ELSE FALSE
    IN  CASE ds[i].d = "Ptr" -> IF ds[i].is_const THEN <<"*const ">> ELSE <<"*">>
          [] ds[i].d = "Ref" -> <<"&">>
          [] ds[i].d = "Array" -> IF next_is_pointer THEN <<"(">> ELSE <<>>
          [] ds[i].d = "Func" -> IF next_is_pointer THEN <<"(">> ELSE <<>>

\* The left part of the declarators, before the identifier.
RECURSIVE write_left(_, _, _)
write_left(ds, i, o) ==
    IF i = 0 THEN o ELSE write_left(ds, i - 1, o \o left_of(ds, i))

\* The placeholder without the test that the list is empty.
void_placeholder_unconditional(args, void_prototype) ==
    IF void_prototype THEN <<"void">> ELSE <<>>

\* The placeholder of an empty parameter list.
void_placeholder(args, void_prototype) ==
    IF args = <<>> /\ void_prototype THEN <<"void">> ELSE <<>>

\* The arguments of one Func declarator, from argument i on.
RECURSIVE write_args(_, _, _, _, _, _, _)
write_args(o, args, i, layout_vertical, align, void_prototype, lang) ==
    IF i > Len(args) THEN o
    ELSE LET o1 == IF i # 1
                   THEN IF layout_vertical THEN new_line(Append(o, ","), align)
                        ELSE Append(o, ", ")
                   ELSE o
             o2 == write(args[i][2], o1, args[i][1], void_prototype, lang)
         IN  write_args(o2, args, i + 1, layout_vertical, align, void_prototype, lang)

\* The closing parenthesis of a group opened in the left part.
close_group(last_was_pointer) == IF last_was_pointer THEN <<")">> ELSE <<>>

\* The bracket text of an Array declarator.
array_brackets(len, lang) == IF lang # "CS" THEN <<"[" \o len \o "]">> ELSE <<>>

\* The right part of the declarators, after the identifier, from declarator
\* i on.
RECURSIVE write_right(_, _, _, _, _, _)
write_right(ds, i, last_was_pointer, o, void_prototype, lang) ==
    IF i > Len(ds) THEN o
    ELSE CASE ds[i].d \in {"Ptr", "Ref"} ->
                write_right(ds, i + 1, TRUE, o, void_prototype, lang)
           [] ds[i].d = "Array" ->
                write_right(ds, i + 1, FALSE,
                            o \o close_group(last_was_pointer)
                              \o array_brackets(ds[i].len, lang),
                            void_prototype, lang)
           [] ds[i].d = "Func" ->
                LET o1 == (o \o close_group(last_was_pointer) \o <<"(">>)
                              \o void_placeholder(ds[i].args, void_prototype)
                    align == line_length_for_align(o1)
                    o2 == write_args(o1, ds[i].args, 1, ds[i].layout_vertical,
                                     align, void_prototype, lang)
                IN  write_right(ds, i + 1, TRUE, Append(o2, ")"),
                                void_prototype, lang)

write(self, o, ident, void_prototype, lang) ==
    LET o1 == write_specifier(self, o, ident, lang)
        o2 == write_left(self.declarators, Len(self.declarators), o1)
        o3 == IF ident # None THEN Append(o2, ident[1]) ELSE o2
    IN  write_right(self.declarators, 1, FALSE, o3, void_prototype, lang)

(***************************************************************************)
(* The public entry points                                                 *)
(***************************************************************************)
write_func(o, f, layout_vertical, void_prototype, lang) ==
    write(from_func(f, layout_vertical, lang), o, Some(f.name), void_prototype, lang)

write_field(o, t, ident, lang) ==
    write(from_type(t, lang), o, Some(ident), FALSE, lang)

write_type(o, t, lang) ==
    write(from_type(t, lang), o, None, FALSE, lang)

(***************************************************************************)
(* The inputs of the model                                                 *)
(***************************************************************************)
\* The nesting depth of the Type trees.
MaxDepth == 2

TInt == Primitive("int")
TVoid == Primitive("void")

Leaves ==
    { TInt, Primitive("u8"),
      Path("Foo", <<>>, Some("struct")),
      Path("Box", <<TInt>>, None) }

ArrayLens == {"4", "8"}

\* Argument lists of a function pointer: names are optional.
FuncPtrArgs ==
    { <<>>,
      << <<Some("a"), TInt>> >>,
      << <<None, Ptr(TInt)>>, <<Some("cb"), FuncPtr(TInt, <<>>)>> >> }

\* Argument lists of a function: every argument is named.
FunctionArgs ==
    { <<>>,
      << <<"a", TInt>> >>,
      << <<"v", Array(TInt, "4")>>, <<"cb", FuncPtr(TInt, <<>>)>> >> }

Wrap(S) ==
    {ConstPtr(t) : t \in S} \cup {Ptr(t) : t \in S}
      \cup {Ref(t) : t \in S} \cup {MutRef(t) : t \in S}
      \cup {Array(t, len) : t \in S, len \in ArrayLens}
      \cup {FuncPtr(t, args) : t \in S, args \in FuncPtrArgs}

RECURSIVE TypesOfDepth(_)
TypesOfDepth(n) ==
    IF n = 0 THEN Leaves
    ELSE LET S == TypesOfDepth(n - 1) IN S \cup Wrap(S)

Types == TypesOfDepth(MaxDepth)

\* Field names.
Idents == {"x", "f"}

Functions ==
    {Function("g", args, ret) :
        args \in FunctionArgs, ret \in TypesOfDepth(MaxDepth - 1) \cup {TVoid}}

(***************************************************************************)
(* One rendering call: the caller picks an entry point and its arguments,  *)
(* the declaration is built and written into a fresh sink.                 *)
(***************************************************************************)
Init ==
    /\ pc = "idle"
    /\ call = [fn |-> "none"]
    /\ cdecl = new
    /\ out = <<>>

Finish(c, decl, text) ==
    /\ call' = c
    /\ cdecl' = decl
    /\ IF decl.panicked
       THEN pc' = "panicked" /\ out' = <<>>
       ELSE pc' = "done" /\ out' = text

CallWriteType ==
    /\ pc = "idle"
    /\ \E t \in Types, lang \in Language :
          Finish([fn |-> "write_type", t |-> t, ident |-> None,
                  void_prototype |-> FALSE, lang |-> lang],
                 from_type(t, lang), write_type(<<>>, t, lang))

CallWriteField ==
    /\ pc = "idle"
    /\ \E t \in Types, lang \in Language :
       \E ident \in Idents :
          Finish([fn |-> "write_field", t |-> t, ident |-> Some(ident),
                  void_prototype |-> FALSE, lang |-> lang],
                 from_type(t, lang), write_field(<<>>, t, ident, lang))

CallWriteFunc ==
    /\ pc = "idle"
    /\ \E f \in Functions, layout_vertical \in BOOLEAN,
          void_prototype \in BOOLEAN, lang \in Language :
          Finish([fn |-> "write_func", f |-> f, ident |-> Some(f.name),
                  layout_vertical |-> layout_vertical,
                  void_prototype |-> void_prototype, lang |-> lang],
                 from_func(f, layout_vertical, lang),
                 write_func(<<>>, f, layout_vertical, void_prototype, lang))

Next == CallWriteType \/ CallWriteField \/ CallWriteFunc

Spec == Init /\ [][Next]_vars

Done == pc = "done"

(***************************************************************************)
(* Reading the written text back: parentheses and what stands next to them *)
(***************************************************************************)
PtrSyms == {"*", "*const ", "&"}

Sym(x) == IF x.d = "Ref" THEN "&" ELSE IF x.is_const THEN "*const " ELSE "*"

Count(o, toks) == Cardinality({i \in 1..Len(o) : o[i] \in toks})

\* Open minus closed parentheses among the first n strings of o.
Nesting(o, n) ==
    Cardinality({i \in 1..n : o[i] = "("}) - Cardinality({i \in 1..n : o[i] = ")"})

Balanced(o) ==
    /\ \A n \in 1..Len(o) : Nesting(o, n) >= 0
    /\ Nesting(o, Len(o)) = 0

\* The position of the parenthesis closing the one opened at a (0: none).
Match(o, a) ==
    LET C == {b \in (a + 1)..Len(o) : o[b] = ")" /\ Nesting(o, b) = Nesting(o, a - 1)}
    IN  IF C = {} THEN 0 ELSE CHOOSE b \in C : \A c \in C : b <= c

\* The string after position b ("" at the end of the text).
After(o, b) == IF b < Len(o) THEN o[b + 1] ELSE ""

\* Opening parentheses directly followed by a pointer or reference symbol:
\* a parameter list never starts with one, so these open a group.
GroupOpens(o) == {a \in 1..Len(o) : o[a] = "(" /\ After(o, a) \in PtrSyms}

\* Array or function declarators directly nested under a pointer/reference.
AdjIdx(ds) ==
    {i \in 2..Len(ds) : ds[i].d \in {"Array", "Func"} /\ ds[i - 1].d \in {"Ptr", "Ref"}}

\* What a declaration itself contributes to the measure m: its adjacencies,
\* its function declarators, its being a single array, its arrays of a length.
Local(decl, m) ==
    LET ds == decl.declarators
    IN  CASE m[1] = "adj" -> Cardinality(AdjIdx(ds))
          [] m[1] = "func" -> Cardinality({i \in 1..Len(ds) : ds[i].d = "Func"})
          [] m[1] = "single" ->
                IF Len(ds) = 1 /\ ds[1].d = "Array" /\ ds[1].len = m[2] THEN 1 ELSE 0
          [] m[1] = "array" ->
                Cardinality({i \in 1..Len(ds) : ds[i].d = "Array" /\ ds[i].len = m[2]})

\* The measure m summed over a declaration and the declarations of the
\* arguments nested in it.
RECURSIVE Total(_, _)
RECURSIVE SumArgs(_, _, _)
RECURSIVE SumDecls(_, _, _)
SumArgs(args, i, m) ==
    IF i > Len(args) THEN 0 ELSE Total(args[i][2], m) + SumArgs(args, i + 1, m)
SumDecls(ds, i, m) ==
    IF i > Len(ds) THEN 0
    ELSE (IF ds[i].d = "Func" THEN SumArgs(ds[i].args, 1, m) ELSE 0)
            + SumDecls(ds, i + 1, m)
Total(decl, m) == Local(decl, m) + SumDecls(decl.declarators, 1, m)

TotalAdj(decl) == Total(decl, <<"adj", "">>)
TotalFuncs(decl) == Total(decl, <<"func", "">>)

\* The position of the declared identifier in the text of a named call.
IdentPos == CHOOSE p \in 1..Len(out) : out[p] = call.ident[1]

\* The groups around the declared identifier, and the one that belongs to
\* the adjacency at declarator i: the innermost group is the first adjacency.
Enclosing(o, p) == {a \in GroupOpens(o) : a < p /\ Match(o, a) > p}

GroupOf(o, p, ds, i) ==
    LET r == Cardinality({j \in AdjIdx(ds) : j <= i})
        E == Enclosing(o, p)
    IN  {a \in E : Cardinality({b \in E : b >= a}) = r}

GroupedAt(o, p, ds, i, lang) ==
    \E a \in GroupOf(o, p, ds, i) :
        /\ o[a + 1] = Sym(ds[i - 1])
        /\ ds[i].d = "Func" => After(o, Match(o, a)) = "("
        /\ ds[i].d = "Array" /\ lang # "CS" =>
              After(o, Match(o, a)) = "[" \o ds[i].len \o "]"

\* C1: every array or function declarator directly nested under a pointer or
\* reference is written inside a matching pair of grouping parentheses: the
\* "(" stands left of the identifier, directly before the pointer/reference
\* symbol, the ")" right of it, directly before the array's [length] or the
\* function's parameter list.  So Ptr(Array(int, 4)) named x is
\* "int (*x)[4]" and FuncPtr(int, [(a, int)]) named f is "int (*f)(int a)".
ThmC1_Grouping ==
    Done =>
        /\ Balanced(out)
        /\ Cardinality(GroupOpens(out)) = TotalAdj(cdecl)
        /\ \A a \in GroupOpens(out) : Match(out, a) > a
        /\ call.ident # None =>
              /\ Cardinality(Enclosing(out, IdentPos))
                    = Cardinality(AdjIdx(cdecl.declarators))
              /\ \A i \in AdjIdx(cdecl.declarators) :
                    GroupedAt(out, IdentPos, cdecl.declarators, i, call.lang)
        /\ call.fn = "write_field" /\ call.lang = "C" /\ call.ident = Some("x")
              /\ call.t = Ptr(Array(TInt, "4")) => Text(out) = "int (*x)[4]"
        /\ call.fn = "write_field" /\ call.lang = "C" /\ call.ident = Some("f")
              /\ call.t = FuncPtr(TInt, << <<Some("a"), TInt>> >>)
              => Text(out) = "int (*f)(int a)"

WitC1_Grouping ==
    /\ Done
    /\ call.fn = "write_field"
    /\ call.t = Ptr(Array(TInt, "4"))
    /\ Text(out) = "int (*x)[4]"

\* C2: a declaration in which no array or function declarator is directly
\* nested under a pointer or reference is written without any grouping
\* parenthesis: its only parentheses delimit parameter lists.  This covers
\* Array(Ptr(int), 4) named x, "int *x[4]", and a function returning an array.
CexC2_NoSpuriousParens ==
    Done /\ TotalAdj(cdecl) = 0 =>
        /\ Count(out, {"("}) = TotalFuncs(cdecl)
        /\ Count(out, {")"}) = TotalFuncs(cdecl)

\* The type a call renders: the field's type, or the function's return type.
IsFuncCall == call.fn \in {"write_func", "from_func"}

CallType == IF IsFuncCall THEN call.f.ret ELSE call.t

IsLeaf(t) == t.k \in {"Primitive", "Path"}

Child(t) == IF t.k = "FuncPtr" THEN t.ret ELSE t.t

RECURSIVE LeafOf(_)
LeafOf(t) == IF IsLeaf(t) THEN t ELSE LeafOf(Child(t))

ConstCount(o) == Count(o, {"const ", "*const "})

\* The text of the pointee/referent of the type of a write_type/write_field
\* call, written on its own by the same call.
PointeeText == write(from_type(call.t.t, call.lang), <<>>, call.ident, FALSE, call.lang)

\* C3: ConstPtr(T) and Ref(T) write T with exactly one more const qualifier
\* than T has on its own, whatever variant T is; Ptr(T) and MutRef(T) write T
\* with no more.
CexC3_ConstOnce ==
    Done /\ call.fn \in {"write_type", "write_field"} =>
        /\ call.t.k \in {"ConstPtr", "Ref"} =>
              ConstCount(out) = ConstCount(PointeeText) + 1
        /\ call.t.k \in {"Ptr", "MutRef"} =>
              ConstCount(out) = ConstCount(PointeeText)

(***************************************************************************)
(* Parameter lists                                                         *)
(***************************************************************************)
\* Every name a declaration or an argument is given.
Names == Idents \cup {"g", "a", "v", "cb"}

\* A parameter list opens after the declared name or after the ")" closing
\* the group of a function pointer; a grouping "(" stands after neither.
ParamOpens(o) == {a \in 2..Len(o) : o[a] = "(" /\ o[a - 1] \in Names \cup {")"}}

\* The j-th parameter list of the text, counted from the left.
ParamOpen(o, j) ==
    CHOOSE a \in ParamOpens(o) : Cardinality({b \in ParamOpens(o) : b <= a}) = j

\* The numbers of arguments of the function declarators of a declaration, in
\* the order their parameter lists are written: a list, then the lists of its
\* arguments, then the next list of the same declaration.
RECURSIVE Arities(_)
RECURSIVE AritiesOfArgs(_, _)
RECURSIVE AritiesOfDecls(_, _)
AritiesOfArgs(args, i) ==
    IF i > Len(args) THEN <<>>
    ELSE Arities(args[i][2]) \o AritiesOfArgs(args, i + 1)
AritiesOfDecls(ds, i) ==
    IF i > Len(ds) THEN <<>>
    ELSE (IF ds[i].d = "Func"
          THEN <<Len(ds[i].args)>> \o AritiesOfArgs(ds[i].args, 1) ELSE <<>>)
            \o AritiesOfDecls(ds, i + 1)
Arities(decl) == AritiesOfDecls(decl.declarators, 1)

\* C4: a function or function-pointer declarator without parameters is
\* written "(void)" when void_prototype is set and "()" when it is not, in
\* every dialect and also inside the parameter list of another function; a
\* declarator with parameters never starts its list with the placeholder.
ThmC4_ExplicitVoid ==
    Done =>
        /\ Cardinality(ParamOpens(out)) = Len(Arities(cdecl))
        /\ \A j \in 1..Len(Arities(cdecl)) :
              LET a == ParamOpen(out, j)
              IN  /\ Arities(cdecl)[j] = 0 /\ call.void_prototype =>
                        out[a + 1] = "void" /\ out[a + 2] = ")"
                  /\ Arities(cdecl)[j] = 0 /\ ~call.void_prototype =>
                        out[a + 1] = ")"
                  /\ Arities(cdecl)[j] > 0 => out[a + 1] \notin {"void", ")"}

WitC4_ExplicitVoid ==
    /\ Done
    /\ call.fn = "write_func"
    /\ call.void_prototype
    /\ call.lang = "CS"
    /\ Len(call.f.args) = 2
    /\ call.f.ret = FuncPtr(TInt, <<>>)
    /\ Arities(cdecl) = <<2, 0, 0>>
    /\ Count(out, {"void"}) = 2

\* C5: g(), returning void and written with void_prototype set, is
\* "void g(void)" in C and "void g()" in C#.
CexC5_VoidOnlyInC ==
    Done /\ call.fn = "write_func" /\ call.void_prototype
         /\ call.f = Function("g", <<>>, TVoid) =>
        /\ call.lang = "C" => Text(out) = "void g(void)"
        /\ call.lang = "CS" => Text(out) = "void g()"

(***************************************************************************)
(* Shape of a Type tree: its variants, without names and lengths           *)
(***************************************************************************)
RECURSIVE Shape(_)
Shape(t) ==
    CASE IsLeaf(t) -> <<"leaf">>
      [] t.k = "FuncPtr" ->
            <<t.k, [i \in 1..Len(t.args) |-> Shape(t.args[i][2])], Shape(t.ret)>>
      [] OTHER -> <<t.k, Shape(t.t)>>

\* C6: the written text determines the nesting of pointers, references,
\* arrays and functions and the constness at every level: in the dialects
\* that keep the array brackets, two types of different shape never give the
\* same text for the same identifier.
CexC6_TextDeterminesShape ==
    Done /\ call.fn = "write_field" /\ call.lang \in {"C", "Cxx"} =>
        \A u \in Types :
            Shape(u) # Shape(call.t) =>
                Text(write_field(<<>>, u, call.ident[1], call.lang)) # Text(out)

(***************************************************************************)
(* Arrays                                                                  *)
(***************************************************************************)
Bracket(len) == "[" \o len \o "]"

Attr(len) == "[MarshalAs(UnmanagedType.ByValArray, SizeConst=" \o len \o ")] readonly "

Brackets == {Bracket(len) : len \in ArrayLens}

Attrs == {Attr(len) : len \in ArrayLens}

ArrayIdx(ds) == {i \in 1..Len(ds) : ds[i].d = "Array"}

\* The position of the base-type name in the text of a declaration that
\* starts the text.
NamePos(decl, attr) ==
    1 + (IF attr THEN 1 ELSE 0) + (IF decl.type_qualifers # "" THEN 1 ELSE 0)
      + (IF decl.type_ctype # None THEN 1 ELSE 0)

\* What C and C++ write for arrays: one [length] per array declarator and no
\* attribute.
BracketsOnly ==
    /\ Count(out, Attrs) = 0
    /\ \A len \in ArrayLens :
          Count(out, {Bracket(len)}) = Total(cdecl, <<"array", len>>)

\* C7 as claimed: in C# every declaration with an array declarator gets the
\* attribute of that array before its base type, the base type gets "[]",
\* and no [length] is written; C and C++ write [length] and no attribute.
CexC7_EveryArrayAttributed ==
    Done =>
        /\ call.lang = "CS" =>
              /\ Count(out, Brackets) = 0
              /\ \A i \in ArrayIdx(cdecl.declarators) :
                    /\ out[1] = Attr(cdecl.declarators[i].len)
                    /\ out[NamePos(cdecl, TRUE)] = cdecl.type_name \o "[]"
        /\ call.lang # "CS" => BracketsOnly

\* C7 as amended: in C# no [length] is ever written; a declaration whose
\* declarator list is exactly one array starts with the attribute carrying
\* that array's length, and its base type is followed by "[]"; any other
\* declaration, with arrays or without, gets neither.  C and C++ write
\* [length] for every array and no attribute.
ThmC7_SingleArrayAttributed ==
    Done =>
        /\ call.lang = "CS" =>
              /\ Count(out, Brackets) = 0
              /\ \A len \in ArrayLens :
                    Count(out, {Attr(len)}) = Total(cdecl, <<"single", len>>)
              /\ IF Len(cdecl.declarators) = 1 /\ cdecl.declarators[1].d = "Array"
                 THEN /\ out[1] = Attr(cdecl.declarators[1].len)
                      /\ out[NamePos(cdecl, TRUE)] = cdecl.type_name \o "[]"
                 ELSE /\ out[1] \notin Attrs
                      /\ out[NamePos(cdecl, FALSE)] = cdecl.type_name
        /\ call.lang # "CS" => BracketsOnly

WitC7_SingleArrayAttributed ==
    /\ Done
    /\ call.lang = "CS"
    /\ call.fn = "write_func"
    /\ ~call.layout_vertical
    /\ ~call.void_prototype
    /\ call.f = Function("g", << <<"v", Array(TInt, "4")>>, <<"cb", FuncPtr(TInt, <<>>)>> >>,
                          Array(TInt, "8"))
    /\ Text(out) = "int (g([MarshalAs(UnmanagedType.ByValArray, SizeConst=4)] "
                       \o "readonly int[] v, int (*cb)()))"

(***************************************************************************)
(* Generic arguments                                                       *)
(***************************************************************************)
HasGenerics(t) == LeafOf(t).k = "Path" /\ LeafOf(t).generics # <<>>

\* C9: a Path with generic arguments aborts the call in C, which cannot
\* render them; elsewhere the arguments follow the base-type name as
\* "<" args ">".
CexC9_GenericsAbortInC ==
    pc # "idle" /\ HasGenerics(CallType) =>
        /\ call.lang = "C" => pc = "panicked" /\ out = <<>>
        /\ call.lang # "C" =>
              /\ Done
              /\ SubSeq(out, NamePos(cdecl, FALSE), NamePos(cdecl, FALSE) + 3)
                    = <<"Box", "<", "int", ">">>

(***************************************************************************)
(* The declarator list against the Type tree                               *)
(***************************************************************************)
\* The wrappers of a Type from the outside in, down to its first leaf.
RECURSIVE Wrappers(_)
Wrappers(t) == IF IsLeaf(t) THEN <<>> ELSE <<t>> \o Wrappers(Child(t))

\* The kinds of declarators a wrapper stands for.
KindsOf(w) ==
    CASE w.k \in {"ConstPtr", "Ptr"} -> <<"Ptr">>
      [] w.k \in {"Ref", "MutRef"} -> <<"Ref">>
      [] w.k = "Array" -> <<"Array">>
      [] w.k = "FuncPtr" -> <<"Ptr", "Func">>

RECURSIVE KindsOfAll(_)
KindsOfAll(ws) == IF ws = <<>> THEN <<>> ELSE KindsOf(ws[1]) \o KindsOfAll(Tail(ws))

\* The wrapper behind each declarator.
RECURSIVE Origins(_)
Origins(ws) ==
    IF ws = <<>> THEN <<>>
    ELSE [i \in 1..Len(KindsOf(ws[1])) |-> ws[1]] \o Origins(Tail(ws))

\* Declarator x carries what its wrapper w carries.
Carries(x, w, lang) ==
    /\ x.d = "Array" => x.len = w.len
    /\ x.d = "Func" =>
          /\ ~x.layout_vertical
          /\ Len(x.args) = Len(w.args)
          /\ \A j \in 1..Len(w.args) :
                /\ x.args[j][1] = w.args[j][1]
                /\ x.args[j][2] = from_type(w.args[j][2], lang)

\* The declarators ds are the chain of t.
IsChainOf(ds, t, lang) ==
    /\ [i \in 1..Len(ds) |-> ds[i].d] = KindsOfAll(Wrappers(t))
    /\ \A i \in 1..Len(ds) : Carries(ds[i], Origins(Wrappers(t))[i], lang)

\* The base-type descriptor is the leaf l.
IsBaseOf(decl, l, lang) ==
    IF l.k = "Primitive"
    THEN /\ decl.type_name = to_repr(l.name, lang)
         /\ decl.type_generic_args = <<>>
         /\ decl.type_ctype = None
    ELSE /\ decl.type_name = l.name
         /\ decl.type_generic_args = l.generics
         /\ decl.type_ctype = l.ctype

Built == pc \in {"done", "built"}

\* C10: from_type gives the outside-in chain of the wrappers of the tree
\* down to its first leaf: a Pointer per ConstPtr/Ptr, a Reference per
\* Ref/MutRef, an Array with the same length per Array, and a Pointer then an
\* inline FunctionArgs per FuncPtr, whose arguments keep their optional names
\* and are built on their own.  from_func gives the FunctionArgs of the
\* function first, all arguments named and the layout as asked, then the
\* chain of the return type, whose leaf is the base type.
ThmC10_Chain ==
    Built =>
        /\ IsBaseOf(cdecl, LeafOf(CallType), call.lang)
        /\ ~IsFuncCall =>
              IsChainOf(cdecl.declarators, call.t, call.lang)
        /\ IsFuncCall =>
              /\ Len(cdecl.declarators) >= 1
              /\ cdecl.declarators[1].d = "Func"
              /\ cdecl.declarators[1].layout_vertical = call.layout_vertical
              /\ Len(cdecl.declarators[1].args) = Len(call.f.args)
              /\ \A j \in 1..Len(call.f.args) :
                    /\ cdecl.declarators[1].args[j][1] = Some(call.f.args[j][1])
                    /\ cdecl.declarators[1].args[j][2]
                          = from_type(call.f.args[j][2], call.lang)
              /\ IsChainOf(Tail(cdecl.declarators), call.f.ret, call.lang)

WitC10_Chain ==
    /\ Built
    /\ call.fn = "write_func"
    /\ call.layout_vertical
    /\ call.f.ret = FuncPtr(TInt, << <<Some("a"), TInt>> >>)
    /\ Len(call.f.args) = 2
    /\ Len(cdecl.declarators) = 3

(***************************************************************************)
(* The builder alone: a declaration is built by from_type or from_func,    *)
(* and build_type is then run once more on the CDecl that came out.        *)
(***************************************************************************)
RebuildTypes == {TInt, Path("Box", <<TInt>>, None), ConstPtr(TInt), Array(TInt, "4")}

FromType ==
    /\ pc = "idle"
    /\ \E t \in Types, lang \in Language :
          /\ call' = [fn |-> "from_type", t |-> t, lang |-> lang]
          /\ cdecl' = from_type(t, lang)
          /\ pc' = IF cdecl'.panicked THEN "panicked" ELSE "built"
    /\ UNCHANGED out

FromFunc ==
    /\ pc = "idle"
    /\ \E f \in Functions, layout_vertical \in BOOLEAN, lang \in Language :
          /\ call' = [fn |-> "from_func", f |-> f,
                      layout_vertical |-> layout_vertical, lang |-> lang]
          /\ cdecl' = from_func(f, layout_vertical, lang)
          /\ pc' = IF cdecl'.panicked THEN "panicked" ELSE "built"
    /\ UNCHANGED out

BuildTypeAgain ==
    /\ pc = "built"
    /\ \E u \in RebuildTypes, is_const \in BOOLEAN :
          /\ call' = [fn |-> "build_type", t |-> u, is_const |-> is_const,
                      lang |-> call.lang, before |-> cdecl]
          /\ cdecl' = build_type(cdecl, u, is_const, call.lang)
          /\ pc' = IF cdecl'.panicked THEN "panicked" ELSE "rebuilt"
    /\ UNCHANGED out

NextBuild == FromType \/ FromFunc \/ BuildTypeAgain

SpecBuild == Init /\ [][NextBuild]_vars

\* The const flag with which build_type(t, is_const) reaches the leaf of t.
RECURSIVE LeafConst(_, _)
LeafConst(t, is_const) ==
    CASE IsLeaf(t) -> is_const
      [] t.k \in {"ConstPtr", "Ref"} -> LeafConst(t.t, TRUE)
      [] t.k \in {"Ptr", "MutRef"} -> LeafConst(t.t, FALSE)
      [] t.k = "Array" -> LeafConst(t.t, is_const)
      [] t.k = "FuncPtr" -> LeafConst(t.ret, FALSE)

\* from_type and from_func complete, with the leaf of the tree as the one
\* base-type descriptor.
FirstBuildCompletes ==
    call.fn \in {"from_type", "from_func"} =>
        /\ pc = "built"
        /\ ~cdecl.panicked
        /\ cdecl.type_name # ""
        /\ IsBaseOf(cdecl, LeafOf(CallType), call.lang)

\* A second build_type on the same CDecl aborts and leaves name, generic
\* arguments and declaration-kind tag as recorded.
SecondBuildAborts ==
    call.fn = "build_type" =>
        /\ pc = "panicked"
        /\ cdecl.type_name = call.before.type_name
        /\ cdecl.type_generic_args = call.before.type_generic_args
        /\ cdecl.type_ctype = call.before.type_ctype

\* C8 as claimed: a build_type that reaches a leaf on a CDecl which has a
\* base type aborts and overwrites neither qualifier, name, generic
\* arguments nor tag; from_type and from_func reach one leaf and complete.
CexC8_NothingOverwritten ==
    /\ FirstBuildCompletes
    /\ SecondBuildAborts
    /\ call.fn = "build_type" => cdecl.type_qualifers = call.before.type_qualifers

\* C8 as amended: such a build_type aborts and overwrites neither name,
\* generic arguments nor tag; the qualifier is kept too, except that a leaf
\* reached const on a descriptor without qualifier sets it to const before
\* the type-name assertion aborts.  from_type and from_func reach one leaf
\* and complete.
ThmC8_SingleBaseType ==
    /\ FirstBuildCompletes
    /\ SecondBuildAborts
    /\ call.fn = "build_type" =>
          cdecl.type_qualifers =
              IF call.before.type_qualifers = "" /\ LeafConst(call.t, call.is_const)
              THEN "const" ELSE call.before.type_qualifers

WitC8_SingleBaseType ==
    /\ pc = "panicked"
    /\ call.fn = "build_type"
    /\ call.t = Path("Box", <<TInt>>, None)
    /\ ~call.is_const
    /\ call.before.type_name = "Foo"
    /\ cdecl = Panic(call.before)

====
